---- MODULE Spec2Model ----
(***************************************************************************)
(* txtconv.py: text file encoding detector and converter.                  *)
(*                                                                         *)
(* The model follows one run of the program.  A run is either one call of  *)
(* convert_encoding (specification SpecEngine) or one invocation of main   *)
(* with parsed command-line arguments (specification Spec).                *)
(*                                                                         *)
(* Strings the code inspects (format names, which it upper-cases, and      *)
(* detector labels, which it lower-cases and searches for "utf") are       *)
(* sequences of one-character strings, so that upper(), lower() and the    *)
(* substring test are computed.  What chardet answers for given bytes,     *)
(* under which codecs the bytes decode, whether the decoded text can be    *)
(* encoded in the target codec, and whether the operating system lets a    *)
(* file be opened are inputs of the step that asks.  The code wraps every  *)
(* decode in try/except, so every decode may fail here, also under         *)
(* iso8859_2; the labels are names Python's codec registry knows.          *)
(*                                                                         *)
(* Left out: --suffix, -d, -r (they only choose the names), --stat, --rem  *)
(* and --color (presentation).  Ctrl+C at a prompt is the answer "ctrl-c". *)
(***************************************************************************)
EXTENDS Integers, Sequences, FiniteSets, TLC

VARIABLES
    fs,        \* the files: path -> content
    args,      \* the parsed command line, or the arguments of a direct call
    pc,        \* where the program is
    matched,   \* the list get_files returned
    queue,     \* the rest of the list the running loop iterates over
    calls,     \* history: the calls of convert_encoding, in order
    last,      \* history: the latest call of convert_encoding, in full
    detected,  \* history: what the calls of detect_encoding returned
    io,        \* history: the files opened and the directories listed
    prompt     \* history: the answer to the overwrite question, if asked

vars == <<fs, args, pc, matched, queue, calls, last, detected, io, prompt>>

(***************************************************************************)
(* Bounds of the model.                                                    *)
(***************************************************************************)
\* number of distinct base file names in the directory
MaxStem == 1
\* how many times the output suffix can already occur in a file name
MaxDepth == 1

\* Python's None, where a string is expected: no character sequence equals it
None == <<"<None>">>

(***************************************************************************)
(* Strings as character sequences: str.upper(), str.lower(), "in".         *)
(***************************************************************************)
Letters == <<"a","b","c","d","e","f","g","h","i","j","k","l","m",
             "n","o","p","q","r","s","t","u","v","w","x","y","z">>
Caps    == <<"A","B","C","D","E","F","G","H","I","J","K","L","M",
             "N","O","P","Q","R","S","T","U","V","W","X","Y","Z">>

UpperChar(c) ==
    IF \E i \in 1..26 : Letters[i] = c
    THEN Caps[CHOOSE i \in 1..26 : Letters[i] = c]
    ELSE c

LowerChar(c) ==
    IF \E i \in 1..26 : Caps[i] = c
    THEN Letters[CHOOSE i \in 1..26 : Caps[i] = c]
    ELSE c

\* s.upper(), s.lower()
ToUpper(s) == [i \in 1..Len(s) |-> UpperChar(s[i])]
ToLower(s) == [i \in 1..Len(s) |-> LowerChar(s[i])]

\* sub in s, for Python strings
Contains(sub, s) ==
    \E i \in 0..(Len(s) - Len(sub)) :
        \A j \in 1..Len(sub) : s[i + j] = sub[j]

\* a string is truthy unless it is None or empty
Truthy(s) == s # None /\ s # <<>>

(***************************************************************************)
(* SUPPORTED_FORMATS                                                       *)
(***************************************************************************)
F_UTF8      == <<"U","T","F","8">>
F_UTF8WBOM  == <<"U","T","F","8","W","B","O","M">>
F_UTF8BOM   == <<"U","T","F","8","B","O","M">>
F_ANSI      == <<"A","N","S","I">>
F_ISO8859_2 == <<"I","S","O","8","8","5","9","_","2">>
F_UTF16LE   == <<"U","T","F","1","6","L","E">>
F_UTF16BE   == <<"U","T","F","1","6","B","E">>

FormatKeys ==
    {F_UTF8, F_UTF8WBOM, F_UTF8BOM, F_ANSI, F_ISO8859_2, F_UTF16LE, F_UTF16BE}

SUPPORTED_FORMATS(key) ==
    CASE key = F_UTF8      -> "utf-8"
      [] key = F_UTF8WBOM  -> "utf-8"
      [] key = F_UTF8BOM   -> "utf-8-sig"
      [] key = F_ANSI      -> "cp1250"
      [] key = F_ISO8859_2 -> "iso8859_2"
      [] key = F_UTF16LE   -> "utf-16-le"
      [] key = F_UTF16BE   -> "utf-16-be"

\* format strings a caller may pass that are no key, even upper-cased
F_bogus == <<"l","a","t","i","n","1">>
F_empty == <<>>
\* a key written in lower case
F_ansi  == <<"a","n","s","i">>

\* the format strings of the model
FormatStrings == FormatKeys \cup {F_ansi, F_bogus, F_empty}

\* target_format.upper(), computed once for each format string
UpperOf == [s \in FormatStrings |-> ToUpper(s)]
Upper(s) == UpperOf[s]

(***************************************************************************)
(* Detector labels and Python's codec registry.                            *)
(***************************************************************************)
L_ascii       == <<"a","s","c","i","i">>
L_utf8        == <<"u","t","f","-","8">>
L_UTF16       == <<"U","T","F","-","1","6">>
L_windows1250 == <<"w","i","n","d","o","w","s","-","1","2","5","0">>
L_iso8859_2   == <<"i","s","o","8","8","5","9","_","2">>
L_utf         == <<"u","t","f">>
L_empty       == <<"e","m","p","t","y">>
L_unknown     == <<"u","n","k","n","o","w","n">>
L_Error       == <<"E","r","r","o","r",":">>

\* what chardet.detect may put under 'encoding'
Labels == {None, L_ascii, L_utf8, L_UTF16, L_windows1250}

\* detected_encoding.lower(), computed once for each label
LowerOf == [l \in Labels \ {None} |-> ToLower(l)]
Lower(l) == LowerOf[l]

\* the names convert_encoding passes to bytes.decode
EncodingNames == (Labels \ {None}) \cup {L_windows1250, L_iso8859_2}

\* the codec an encoding name selects (names are matched without regard to case)
LookupCodec(enc) ==
    LET n == ToLower(enc) IN
    CASE n = L_windows1250  -> "cp1250"
      [] n = L_iso8859_2    -> "iso8859_2"
      [] n = L_ascii        -> "ascii"
      [] n = L_utf8         -> "utf-8"
      [] n = ToLower(L_UTF16) -> "utf-16"

CodecRegistry == [enc \in EncodingNames |-> LookupCodec(enc)]
CodecOf(enc) == CodecRegistry[enc]

\* codecs of the target formats that cannot represent every character
SingleByteCodecs == {"cp1250", "iso8859_2"}

(***************************************************************************)
(* Files.  A path is <<stem, depth>>: base name number stem followed by    *)
(* depth copies of "_SUFFIX", all with the same extension.                 *)
(***************************************************************************)
Paths  == (1..MaxStem) \X (0..(MaxDepth + 1))
NoPath == <<0, 0>>

\* f"{base}_{suffix}{extension}"
OutName(p) == <<p[1], p[2] + 1>>

\* the order of sorted() on these names: '.' sorts before '_'
PathLess(p, q) == p[1] < q[1] \/ (p[1] = q[1] /\ p[2] < q[2])

NoFile     == [kind |-> "nofile"]
EmptyBytes == [kind |-> "empty"]
\* the non-empty bytes stored at path p before the run
Original(p) == [kind |-> "bytes", id |-> p]
\* the text that decoding bytes under a codec yields
NoText == [kind |-> "notext"]
Text(raw, codec) == [kind |-> "text", src |-> raw, codec |-> codec]
\* the bytes that encoding a text under a codec yields
Encoded(text, codec) == [kind |-> "encoded", text |-> text, codec |-> codec]

Exists(f, p) == p \in Paths /\ f[p] # NoFile

(***************************************************************************)
(* convert_encoding(file_in, file_out, target_format)                      *)
(***************************************************************************)
\* a slip: the two priority encodings in the other order
encodings_to_try_iso_first(detected_encoding) ==
    LET priority == <<L_iso8859_2, L_windows1250>> IN
    IF detected_encoding # None
       /\ \A i \in 1..Len(priority) : priority[i] # detected_encoding
    THEN Append(priority, detected_encoding)
    ELSE priority

\* encodings_to_try: the priority list, then chardet's suggestion
encodings_to_try(detected_encoding) ==
    LET priority == <<L_windows1250, L_iso8859_2>> IN
    IF detected_encoding # None
       /\ \A i \in 1..Len(priority) : priority[i] # detected_encoding
    THEN Append(priority, detected_encoding)
    ELSE priority

\* a slip: "utf" searched in the label as it is, without lower()
TrustUnicodeFirstCaseSensitive(detected_encoding) ==
    detected_encoding # None /\ Contains(L_utf, detected_encoding)

\* "If a UTF format is detected, trust it first."
TrustUnicodeFirst(detected_encoding) ==
    detected_encoding # None /\ Contains(L_utf, Lower(detected_encoding))

\* raw_data.decode(enc), valid being the codecs under which the bytes decode
Decode(raw, enc, valid) ==
    IF CodecOf(enc) \in valid THEN Text(raw, CodecOf(enc)) ELSE NoText

Attempt(raw, enc, valid) == [enc |-> enc, ok |-> Decode(raw, enc, valid) # NoText]

\* the try/except around the decode under the detected Unicode format
UnicodeFirst(raw, detected_encoding, valid) ==
    IF TrustUnicodeFirst(detected_encoding)
    THEN [text     |-> Decode(raw, detected_encoding, valid),
          attempts |-> <<Attempt(raw, detected_encoding, valid)>>]
    ELSE [text |-> NoText, attempts |-> <<>>]

\* for enc in encodings_to_try: try decode; break on success, continue on error
RECURSIVE FallbackLoop(_, _, _)
FallbackLoop(raw, encs, valid) ==
    IF encs = <<>>
    THEN [text |-> NoText, attempts |-> <<>>]
    ELSE IF Decode(raw, Head(encs), valid) # NoText
         THEN [text     |-> Decode(raw, Head(encs), valid),
               attempts |-> <<Attempt(raw, Head(encs), valid)>>]
         ELSE LET rest == FallbackLoop(raw, Tail(encs), valid) IN
              [text     |-> rest.text,
               attempts |-> <<Attempt(raw, Head(encs), valid)>> \o rest.attempts]

\* "if text is None:" guards the fallback loop
NeedsFallback(text) == text = NoText

\* the decode stage as a whole
DecodeStage(raw, detected_encoding, valid) ==
    LET first == UnicodeFirst(raw, detected_encoding, valid) IN
    IF NeedsFallback(first.text)
    THEN LET loop == FallbackLoop(raw, encodings_to_try(detected_encoding), valid) IN
         [text |-> loop.text, attempts |-> first.attempts \o loop.attempts]
    ELSE first

\* a slip: no short-circuit for empty input
IsEmptyMissing(raw) == FALSE

\* "if not raw_data:"
IsEmpty(raw) == raw = EmptyBytes

\* a slip: no return after "All decoding attempts failed"
ReachesWriteAlways(text) == TRUE

\* "if text is None: ... return": the write is reached only with a text
ReachesWrite(text) == text # NoText

\* fout.write(text): the text encoder raises on a character the codec lacks
\* (and on a value that is no text); unrep says the text has such a character
Encodable(text, codec, unrep) ==
    text # NoText /\ ~(unrep /\ codec \in SingleByteCodecs)

\* chardet.detect was not called
NoLabel == <<"<not called>">>

\* the result of one call, as far as the environment env decides it:
\*   env.rdErr  opening file_in for reading fails
\*   env.label  chardet's 'encoding' for the bytes
\*   env.valid  the codecs under which the bytes decode
\*   env.wrErr  opening file_out for writing fails
\*   env.unrep  the decoded text has a character single-byte codecs lack
ConvertRun(f, file_in, file_out, target_format, env) ==
    LET target_format_upper == Upper(target_format)
        raw == f[file_in]
        dec == DecodeStage(raw, env.label, env.valid)
        rd  == {<<"open_r", file_in>>}
        wr  == {<<"open_r", file_in>>, <<"open_w", file_out>>}
        Call(read, label, d, ops, outcome, error) ==
            [file_in |-> file_in, file_out |-> file_out, target |-> target_format,
             env |-> env, before |-> f[file_out], raw |-> read,
             chardet |-> label # NoLabel, label |-> IF label = NoLabel THEN None ELSE label,
             attempts |-> d.attempts, text |-> d.text, io |-> ops,
             outcome |-> outcome, error |-> error]
        none == [text |-> NoText, attempts |-> <<>>]
    IN
    IF env.rdErr \/ raw = NoFile
    THEN \* except (IOError, PermissionError): print, return
         [fs |-> f, call |-> Call(NoFile, NoLabel, none, rd, "UnreadableInput", "OSError")]
    ELSE IF IsEmpty(raw)
    THEN \* open(file_out, 'w').close() stands outside any try
         IF env.wrErr
         THEN [fs |-> f, call |-> Call(raw, NoLabel, none, wr, "Raised", "OSError")]
         ELSE [fs |-> [f EXCEPT ![file_out] = EmptyBytes],
               call |-> Call(raw, NoLabel, none, wr, "EmptyInputWritten", "")]
    ELSE IF ~ReachesWrite(dec.text)
    THEN [fs |-> f,
          call |-> Call(raw, env.label, dec, rd, "AllDecodeAttemptsFailed", "")]
    ELSE IF target_format_upper \notin FormatKeys
    THEN \* SUPPORTED_FORMATS[...] raises KeyError before open() is called
         [fs |-> f, call |-> Call(raw, env.label, dec, rd, "WriteError", "KeyError")]
    ELSE IF env.wrErr
    THEN [fs |-> f, call |-> Call(raw, env.label, dec, wr, "WriteError", "OSError")]
    ELSE IF ~Encodable(dec.text, SUPPORTED_FORMATS(target_format_upper), env.unrep)
    THEN \* open(file_out, 'w') has truncated the file when write() raises
         [fs |-> [f EXCEPT ![file_out] = EmptyBytes],
          call |-> Call(raw, env.label, dec, wr, "WriteError", "UnicodeEncodeError")]
    ELSE [fs |-> [f EXCEPT ![file_out] =
                     Encoded(dec.text, SUPPORTED_FORMATS(target_format_upper))],
          call |-> Call(raw, env.label, dec, wr, "Written", "")]

\* the codecs the call may ask to decode under, given chardet's label
Candidates(label) ==
    {"cp1250", "iso8859_2"} \cup (IF label = None THEN {} ELSE {CodecOf(label)})

\* the environments that differ in what a call on the given input sees
Envs(content) ==
    LET quiet == [rdErr |-> FALSE, label |-> None, valid |-> {},
                  wrErr |-> FALSE, unrep |-> FALSE] IN
    {[quiet EXCEPT !.rdErr = TRUE]}
    \cup (IF content = NoFile THEN {}
          ELSE IF content = EmptyBytes
          THEN {[quiet EXCEPT !.wrErr = w] : w \in BOOLEAN}
          ELSE UNION {
                 {[rdErr |-> FALSE, label |-> l, valid |-> v,
                   wrErr |-> x[1], unrep |-> x[2]] :
                     v \in SUBSET Candidates(l),
                     x \in {<<TRUE, FALSE>>, <<FALSE, FALSE>>, <<FALSE, TRUE>>}}
                 : l \in Labels})

\* what the history keeps of a call once a later call has been made
Brief(call) ==
    [file_in |-> call.file_in, file_out |-> call.file_out,
     outcome |-> call.outcome,
     existed |-> call.before # NoFile,
     written |-> <<"open_w", call.file_out>> \in call.io /\ call.error # "OSError"]

NoCall == [outcome |-> "none"]

convert_encoding(file_in, file_out, target_format) ==
    \E r \in {ConvertRun(fs, file_in, file_out, target_format, env) :
                 env \in Envs(fs[file_in])} :
        /\ fs' = r.fs
        /\ last' = r.call
        /\ calls' = Append(calls, Brief(r.call))
        /\ io' = io \cup r.call.io

(***************************************************************************)
(* detect_encoding(filename)                                               *)
(***************************************************************************)
\* dict.get(key, default): the default is used only for a missing key
DictGet(d, key, default) == IF key \in DOMAIN d THEN d[key] ELSE default

\* chardet.detect(data): a dict that always has both keys; with no guess the
\* 'encoding' entry is None and the confidence 0.0 (confidence in percent)
ChardetDetect(label, conf) ==
    [encoding |-> label, confidence |-> IF label = None THEN 0 ELSE conf]

Confidences == {50, 100}

DetectRun(f, filename, env) ==
    IF env.rdErr \/ f[filename] = NoFile
    THEN [file |-> filename, input |-> "unreadable",
          encoding |-> L_Error, confidence |-> 0, chardet |-> None]
    ELSE IF f[filename] = EmptyBytes
    THEN [file |-> filename, input |-> "empty",
          encoding |-> L_empty, confidence |-> 100, chardet |-> None]
    ELSE LET result == ChardetDetect(env.label, env.conf) IN
         [file |-> filename, input |-> "data",
          encoding   |-> DictGet(result, "encoding", L_unknown),
          confidence |-> DictGet(result, "confidence", 0),
          chardet    |-> result.encoding]

DetectEnvs(content) ==
    {[rdErr |-> TRUE, label |-> None, conf |-> 0]}
    \cup (IF content = NoFile THEN {}
          ELSE IF content = EmptyBytes
          THEN {[rdErr |-> FALSE, label |-> None, conf |-> 0]}
          ELSE {[rdErr |-> FALSE, label |-> l, conf |-> c] :
                   l \in Labels, c \in Confidences})

detect_encoding(filename) ==
    \E env \in DetectEnvs(fs[filename]) :
        /\ detected' = Append(detected, DetectRun(fs, filename, env))
        /\ io' = io \cup {<<"open_r", filename>>}

(***************************************************************************)
(* get_files, process_all, show_files_info                                 *)
(***************************************************************************)
RECURSIVE SortedSeq(_)
SortedSeq(S) ==
    IF S = {} THEN <<>>
    ELSE LET m == CHOOSE p \in S : \A q \in S \ {p} : PathLess(p, q) IN
         <<m>> \o SortedSeq(S \ {m})

\* sorted(glob.glob(pattern)): every file of the directory has the extension
get_files(f) == SortedSeq({p \in Paths : f[p] # NoFile})

\* output_map: the pairs (fname, new_name)
output_map(files) == [i \in 1..Len(files) |-> <<files[i], OutName(files[i])>>]

\* existing_files
existing_files(f, files) ==
    {OutName(files[i]) : i \in {j \in 1..Len(files) : Exists(f, OutName(files[j]))}}

\* "if existing_files and not overwrite:" the batch asks before it starts
BatchMustAsk(f, files, overwrite) == existing_files(f, files) # {} /\ ~overwrite

Answers == {"y", "n", "ctrl-c"}

\* process_all up to the loop over output_map (BatchStep is the loop)
process_all ==
    LET files == get_files(fs) IN
    /\ io' = io \cup {<<"list", NoPath>>}
    /\ matched' = files
    /\ UNCHANGED <<fs, calls, last, detected>>
    /\ IF files = <<>>
       THEN pc' = "done" /\ UNCHANGED <<queue, prompt>>
       ELSE IF BatchMustAsk(fs, files, args.overwrite)
       THEN \E response \in Answers :
               /\ prompt' = response
               /\ IF response = "y"
                  THEN pc' = "batch" /\ queue' = output_map(files)
                  ELSE pc' = "done" /\ UNCHANGED queue
       ELSE pc' = "batch" /\ queue' = output_map(files) /\ UNCHANGED prompt

\* an exception that convert_encoding lets through ends the program
AfterCall(call, more) ==
    IF call.outcome = "Raised" THEN "crashed" ELSE more

\* one iteration of "for fname_in, fname_out in output_map"
BatchStep ==
    /\ pc = "batch"
    /\ queue # <<>>
    /\ convert_encoding(Head(queue)[1], Head(queue)[2], args.format)
    /\ queue' = Tail(queue)
    /\ pc' = AfterCall(last', IF Tail(queue) = <<>> THEN "done" ELSE "batch")
    /\ UNCHANGED <<args, matched, detected, prompt>>

\* show_files_info up to the loop over the files (ShowStep is the loop)
show_files_info ==
    LET files == get_files(fs) IN
    /\ io' = io \cup {<<"list", NoPath>>}
    /\ matched' = files
    /\ queue' = [i \in 1..Len(files) |-> <<files[i], NoPath>>]
    /\ pc' = IF files = <<>> THEN "done" ELSE "show"
    /\ UNCHANGED <<fs, calls, last, detected, prompt>>

\* one iteration of "for fname in dir_file_list"
ShowStep ==
    /\ pc = "show"
    /\ queue # <<>>
    /\ detect_encoding(Head(queue)[1])
    /\ queue' = Tail(queue)
    /\ pc' = IF Tail(queue) = <<>> THEN "done" ELSE "show"
    /\ UNCHANGED <<fs, args, matched, calls, last, prompt>>

(***************************************************************************)
(* main                                                                    *)
(***************************************************************************)
\* "if args.format and args.format.upper() not in SUPPORTED_FORMATS"
FormatRejected(format) == Truthy(format) /\ Upper(format) \notin FormatKeys

\* "if os.path.exists(auto_output) and not args.overwrite"
SingleMustAsk(f, auto_output, overwrite) == Exists(f, auto_output) /\ ~overwrite

\* the branch "if args.input_file:"
SingleFile ==
    IF args.output_file # NoPath /\ Truthy(args.format)
    THEN /\ convert_encoding(args.input_file, args.output_file, args.format)
         /\ pc' = AfterCall(last', "done")
         /\ UNCHANGED <<matched, queue, detected, prompt>>
    ELSE IF Truthy(args.format) /\ args.output_file = NoPath
    THEN LET auto_output == OutName(args.input_file) IN
         IF SingleMustAsk(fs, auto_output, args.overwrite)
         THEN \E response \in Answers :
                 /\ prompt' = response
                 /\ IF response = "y"
                    THEN /\ convert_encoding(args.input_file, auto_output, args.format)
                         /\ pc' = AfterCall(last', "done")
                         /\ UNCHANGED <<matched, queue, detected>>
                    ELSE /\ pc' = "done"
                         /\ UNCHANGED <<fs, matched, queue, calls, last, detected, io>>
         ELSE /\ convert_encoding(args.input_file, auto_output, args.format)
              /\ pc' = AfterCall(last', "done")
              /\ UNCHANGED <<matched, queue, detected, prompt>>
    ELSE IF args.output_file = NoPath
    THEN /\ detect_encoding(args.input_file)
         /\ pc' = "done"
         /\ UNCHANGED <<fs, matched, queue, calls, last, prompt>>
    ELSE /\ pc' = "done"
         /\ UNCHANGED <<fs, matched, queue, calls, last, detected, io, prompt>>

main ==
    /\ pc = "start"
    /\ UNCHANGED args
    /\ IF args.help
       THEN /\ pc' = "done"
            /\ UNCHANGED <<fs, matched, queue, calls, last, detected, io, prompt>>
       ELSE IF FormatRejected(args.format)
       THEN /\ pc' = "exit1"
            /\ UNCHANGED <<fs, matched, queue, calls, last, detected, io, prompt>>
       ELSE IF args.show_ext
       THEN show_files_info
       ELSE IF args.ext
       THEN IF ~Truthy(args.format)
            THEN /\ pc' = "done"
                 /\ UNCHANGED <<fs, matched, queue, calls, last, detected, io, prompt>>
            ELSE process_all
       ELSE IF args.input_file # NoPath
       THEN SingleFile
       ELSE /\ pc' = "done"
            /\ UNCHANGED <<fs, matched, queue, calls, last, detected, io, prompt>>

\* a direct call of convert_encoding
ApiCall ==
    /\ pc = "call"
    /\ convert_encoding(args.input_file, args.output_file, args.format)
    /\ pc' = AfterCall(last', "returned")
    /\ UNCHANGED <<args, matched, queue, detected, prompt>>

(***************************************************************************)
(* Specifications                                                          *)
(***************************************************************************)
\* the directory before the run: no name carries more than MaxDepth suffixes
Directories ==
    {[p \in Paths |-> CASE k[p] = "nofile" -> NoFile
                       [] k[p] = "empty"  -> EmptyBytes
                       [] k[p] = "bytes"  -> Original(p)] :
        k \in {h \in [Paths -> {"nofile", "empty", "bytes"}] :
                  \A p \in Paths : p[2] > MaxDepth => h[p] = "nofile"}}

\* the format strings given on the command line
FormatArgs == {None, F_empty, F_ansi, F_UTF8, F_bogus}

CommandLines ==
    [help        : BOOLEAN,
     format      : FormatArgs,
     show_ext    : BOOLEAN,
     ext         : BOOLEAN,
     input_file  : {NoPath} \cup {p \in Paths : p[2] = 0},
     output_file : {NoPath} \cup {p \in Paths : p[2] = 1},
     overwrite   : BOOLEAN]

Fresh ==
    /\ matched = <<>>
    /\ queue = <<>>
    /\ calls = <<>>
    /\ last = NoCall
    /\ detected = <<>>
    /\ io = {}
    /\ prompt = "none"

Init ==
    /\ fs \in Directories
    /\ args \in CommandLines
    /\ pc = "start"
    /\ Fresh

Next == main \/ BatchStep \/ ShowStep

Spec == Init /\ [][Next]_vars

\* the target_format strings a direct caller passes
EngineFormats == FormatKeys \cup {F_ansi, F_bogus}

\* a direct call names an input path and another path for the output
InitEngine ==
    /\ args \in [help : {FALSE}, format : EngineFormats, show_ext : {FALSE},
                 ext : {FALSE}, input_file : Paths, output_file : Paths,
                 overwrite : {FALSE}]
    /\ args.input_file # args.output_file
    /\ \E cin \in {NoFile, EmptyBytes, Original(args.input_file)},
          cout \in {NoFile, EmptyBytes, Original(args.output_file)} :
          fs = [p \in Paths |-> IF p = args.input_file THEN cin
                                ELSE IF p = args.output_file THEN cout
                                ELSE NoFile]
    /\ pc = "call"
    /\ Fresh

NextEngine == ApiCall

SpecEngine == InitEngine /\ [][NextEngine]_vars

(***************************************************************************)
(* Properties of convert_encoding, checked under SpecEngine                *)
(***************************************************************************)
\* the call has returned or raised
CallEnded == pc \in {"returned", "crashed"}

\* the call read its input and the input had bytes
ReadBytes == CallEnded /\ last.raw \notin {NoFile, EmptyBytes}

\* the codec of the target format of the call
TargetCodec == SUPPORTED_FORMATS(UpperOf[last.target])

\* the detector's label contains "utf" in any letter case
LabelSaysUtf == last.label # None /\ Contains(L_utf, LowerOf[last.label])

\* the candidate list the specification gives for the latest call
ListedCandidates ==
    IF last.label \in {None, L_windows1250, L_iso8859_2}
    THEN <<L_windows1250, L_iso8859_2>>
    ELSE <<L_windows1250, L_iso8859_2, last.label>>

\* the bytes of the latest call decode under the encoding name
Decodes(enc) == CodecRegistry[enc] \in last.env.valid

C2_InvalidTargetDoesNoIO ==
    (CallEnded /\ UpperOf[last.target] \notin FormatKeys)
    => /\ last.error = "KeyError"
       /\ last.io = {}
       /\ fs[last.file_out] = last.before

\* C3: when the bytes decode under no candidate, the call ends in the
\* all-decodes-failed failure and the output path is as it was before the
\* call, never opened for writing.
C3_TotalFailureLeavesOutput ==
    (ReadBytes /\ \A i \in 1..Len(ListedCandidates) : ~Decodes(ListedCandidates[i]))
    => /\ last.outcome = "AllDecodeAttemptsFailed"
       /\ fs[last.file_out] = last.before
       /\ <<"open_w", last.file_out>> \notin last.io

C3_Witness ==
    /\ ReadBytes
    /\ last.label = L_utf8
    /\ last.env.valid = {}
    /\ Len(last.attempts) = 4
    /\ last.before = Original(last.file_out)
    /\ last.outcome = "AllDecodeAttemptsFailed"

\* C4: when the label contains "utf" in any letter case and the bytes decode
\* under it, that decode is the only attempt, its text is the text of the
\* call and the one written, whatever windows-1250 and iso8859_2 would do.
C4_UnicodePreemption ==
    (ReadBytes /\ LabelSaysUtf /\ Decodes(last.label))
    => /\ last.attempts = <<[enc |-> last.label, ok |-> TRUE]>>
       /\ last.text = Text(last.raw, CodecRegistry[last.label])
       /\ (last.outcome = "Written"
             => fs[last.file_out] = Encoded(last.text, TargetCodec))

C4_Witness ==
    /\ ReadBytes
    /\ last.label = L_UTF16
    /\ last.env.valid = {"utf-16", "cp1250", "iso8859_2"}
    /\ last.attempts = <<[enc |-> L_UTF16, ok |-> TRUE]>>
    /\ last.outcome = "Written"

\* the attempts of the latest call after the Unicode-first attempt, if any
FallbackAttempts ==
    IF LabelSaysUtf THEN Tail(last.attempts) ELSE last.attempts

\* C5: when the Unicode-first attempt gave no text, the candidates are tried
\* in the order windows-1250, iso8859_2, label (if present and not one of
\* the two); the attempts stop at the first success, whose text is the text
\* of the call and the one written; at most one attempt succeeds.
C5_FallbackOrderFirstSuccessWins ==
    (ReadBytes /\ ~(LabelSaysUtf /\ Decodes(last.label)))
    => LET tried == FallbackAttempts
           n == Len(tried)
       IN /\ n >= 1 /\ n <= Len(ListedCandidates)
          /\ \A i \in 1..n :
                /\ tried[i].enc = ListedCandidates[i]
                /\ tried[i].ok = Decodes(ListedCandidates[i])
                /\ (i < n => ~tried[i].ok)
          /\ (~tried[n].ok => n = Len(ListedCandidates))
          /\ Cardinality({i \in 1..Len(last.attempts) : last.attempts[i].ok}) <= 1
          /\ IF tried[n].ok
             THEN /\ last.text = Text(last.raw, CodecRegistry[tried[n].enc])
                  /\ (last.outcome = "Written"
                        => fs[last.file_out] = Encoded(last.text, TargetCodec))
             ELSE /\ last.text = NoText
                  /\ last.outcome # "Written"

C5_Witness ==
    /\ ReadBytes
    /\ last.label = L_utf8
    /\ last.env.valid = {"iso8859_2"}
    /\ Len(last.attempts) = 3
    /\ last.attempts[3] = [enc |-> L_iso8859_2, ok |-> TRUE]
    /\ last.outcome = "Written"

\* C9: a call on non-empty input ends in Written or in a reported failure;
\* the output file is created or modified only when the call ends in Written,
\* and then holds the whole text in the target codec; a failure to encode is
\* reported apart from the all-decodes-failed failure and leaves the output
\* as it was.
C9_OutputOnlyWhenWritten ==
    ReadBytes
    => /\ last.outcome \in {"Written", "AllDecodeAttemptsFailed", "WriteError"}
       /\ (fs[last.file_out] # last.before => last.outcome = "Written")
       /\ (last.outcome = "Written"
             => fs[last.file_out] = Encoded(last.text, TargetCodec))
       /\ (last.error = "UnicodeEncodeError"
             => /\ last.outcome = "WriteError"
                /\ fs[last.file_out] = last.before)

(***************************************************************************)
(* Properties of the command line program, checked under Spec              *)
(***************************************************************************)
\* C6: in every conversion path of the command line (-i with --format, -i
\* with -o and --format, --all) an output path that exists before the
\* conversion is written only if --overwrite was given or the user answered
\* 'y' to the overwrite question of the run.
C6_ExistingOutputNeedsConsent ==
    \A i \in 1..Len(calls) :
        (calls[i].existed /\ calls[i].written) => (args.overwrite \/ prompt = "y")

\* C7: detect_encoding returns the label "unknown" with confidence 0 for a
\* readable non-empty file for which chardet's 'encoding' entry is None, and
\* the label 'empty' with confidence 1.0 for an empty file.
C7_DetectLabelsUnknownAndEmpty ==
    \A i \in 1..Len(detected) :
        /\ (detected[i].input = "data" /\ detected[i].chardet = None)
              => (detected[i].encoding = L_unknown /\ detected[i].confidence = 0)
        /\ detected[i].input = "empty"
              => (detected[i].encoding = L_empty /\ detected[i].confidence = 100)

\* C8: when a --format value is given whose upper-cased name is no key of
\* SUPPORTED_FORMATS, main rejects the run before any file is opened,
\* listed, read or written, whichever of --show, --all and -i is given: in
\* such a run no file is ever touched.
C8_InvalidFormatTouchesNoFile ==
    (args.format # None /\ UpperOf[args.format] \notin FormatKeys) => io = {}

\* the run is a batch conversion whose overwrite check has passed
BatchPassedCheck ==
    /\ ~args.help /\ ~args.show_ext /\ args.ext
    /\ args.format # None /\ UpperOf[args.format] \in FormatKeys
    /\ pc # "start"
    /\ matched # <<>>
    /\ prompt \in {"none", "y"}

\* C10: once the overwrite check has passed, process_all calls
\* convert_encoding once for each matched file, in the sorted order, and
\* reaches the end of the list whatever happens to a single file.
C10_BatchReachesEveryFile ==
    BatchPassedCheck
    => /\ Len(calls) <= Len(matched)
       /\ \A i \in 1..Len(calls) :
             /\ calls[i].file_in = matched[i]
             /\ calls[i].file_out = OutName(matched[i])
       /\ (pc # "batch" => Len(calls) = Len(matched))

====
